---- MODULE Spec2Model ----
(***************************************************************************)
(* ADS-B ingestion service: the batch processor (data_processor.py), the   *)
(* storage writer (database_manager.py), the stream reader                 *)
(* (dump1090_client.py) and the threads main.py starts.                    *)
(*                                                                         *)
(* Spec        the processor, the writer and the service threads           *)
(* FairSpec    Spec with the scheduling fairness of the threads            *)
(* SpecStats   Spec with the statistics thread                             *)
(* SpecClient  the stream reader's connect / backoff / read loop           *)
(* SpecWriter  the writer's construction and its units of work             *)
(* SpecDecode  one line through the decoder and on to the aircraft upsert  *)
(* SpecRecent  a stream longer than the recency deque through add_message  *)
(***************************************************************************)
EXTENDS Integers, Sequences, FiniteSets, TLC

VARIABLES
    \* configuration read by DataProcessor.__init__
    batch_size, batch_timeout, enable_deduplication,
    \* DataProcessor fields
    message_queue, recent_messages, stats, last_flush, lock,
    \* time.time()
    now,
    \* main.running
    running,
    \* position of each thread, the operation it is in, and its locals
    pc, op, message, messages,
    \* committed contents of the MySQL tables
    db,
    \* history: every add_message call, every call attempt on the writer (with
    \* whether batch_timeout had elapsed when it was made)
    adds, handed,
    \* history: the adds and flushes since a chosen add_message call that found
    \* the queue empty
    since

procVars == <<batch_size, batch_timeout, enable_deduplication,
              message_queue, recent_messages, stats, last_flush, lock,
              now, running, pc, op, message, messages, db, adds, handed, since>>

VARIABLES
    \* Dump1090Client configuration and fields
    reconnect_interval, max_reconnect_interval, connected, socket, buffer,
    \* read_messages: its position and its local current_reconnect_interval
    cpc, current_reconnect_interval,
    \* history: the sleeps of the current run of failed connects, the length of
    \* the run that the last successful connect ended, the number of successful
    \* connects, the data reads, the lines handed to the callback
    waits, lastrun, connects, reads, delivered,
    \* history: what the last recv since the last connect did, the lines on
    \* which the callback raised,
    \* the characters received on the current connection, and the number of
    \* lines that had been delivered when it was opened
    recv_result, sink_failed, stream, mark

clientVars == <<reconnect_interval, max_reconnect_interval, connected, socket,
                buffer, cpc, current_reconnect_interval,
                waits, lastrun, connects, reads, delivered,
                recv_result, sink_failed, stream, mark>>

VARIABLES
    \* position of the statistics thread (print_stats)
    spc

VARIABLES
    \* DatabaseManager: the configured pool size, the connections checked out
    \* of self.pool, the position inside the current unit of work, the method
    \* it runs, the calls made on its connection and its pending exception
    pool_size, checked_out, wpc, unit, calls, pending,
    \* history: the units of work that have ended
    wlog

writerVars == <<pool_size, checked_out, wpc, unit, calls, pending, wlog>>

VARIABLES
    \* message_callback: the line it is given and what ADSBParser.parse made
    \* of it
    input_line, parsed,
    \* the records decoded before it, the aircraft table, the table as it was
    \* before _upsert_aircraft ran, the position of the decode-and-store path
    decoded, aircraft_table, table_before, dpc

decodeVars == <<input_line, parsed, decoded, aircraft_table, table_before, dpc>>

vars == <<procVars, clientVars, spc, writerVars, decodeVars>>

----------------------------------------------------------------------------
(* Bounds of the model *)

\* add_message calls the reader makes
MaxAdds == 3
\* largest value of time.time()
MaxTime == 1
\* largest configured batch_size
MaxBatchSize == 2
\* largest configured batch_timeout
MaxTimeout == 1
\* most comma-separated fields of a line
MaxFields == 23
\* largest configured pool_size
MaxPool == 3
\* units of work called on the writer after its construction
MaxUnits == 4
\* largest configured reconnect_interval and max_reconnect_interval
MaxInterval == 3
\* longest run of consecutive failed connects
MaxFailures == 3
\* successful connects of one read_messages call
MaxConnects == 2
\* reads that return data
MaxReads == 2

----------------------------------------------------------------------------
(* Values *)

None == "<None>"

\* Records ADSBParser.parse can return (icao24 non-empty, timestamp present).
\* The first two have the same dedup key and different contents.
Msgs ==
    { [icao24 |-> "A1", timestamp |-> "t1", transmission_type |-> 3,
       callsign |-> "CS1", lat |-> "40.0", lon |-> "-75.0"],
      [icao24 |-> "A1", timestamp |-> "t1", transmission_type |-> 3,
       callsign |-> "", lat |-> None, lon |-> None],
      [icao24 |-> "B2", timestamp |-> "t1", transmission_type |-> 1,
       callsign |-> "CS2", lat |-> "42.0", lon |-> "-76.0"] }

\* the parameter of add_message before the first call: a record that no line
\* decodes to
NoMessage ==
    [icao24 |-> "", timestamp |-> None, transmission_type |-> 0,
     callsign |-> None, lat |-> None, lon |-> None]

Threads == {"main", "timer"}

\* what the MySQL server can do to one transaction
Faults == {"none", "pool", "upsert", "insert", "positions", "commit"}

----------------------------------------------------------------------------
(* DataProcessor: pure parts *)

\* deque(maxlen=1000)
RecentMaxLen == 1000

\* a deque without maxlen
DequeUnbounded(d, x) == Append(d, x)

\* deque.append with maxlen: a full deque drops its oldest element
DequeAppend(d, x) ==
    IF Len(d) >= RecentMaxLen THEN Append(Tail(d), x) ELSE Append(d, x)

_message_key(m) ==
    m.icao24 \o ":" \o m.timestamp \o ":" \o ToString(m.transmission_type)

\* a duplicate test that compares the stored keys with the icao24 alone
IsDuplicateByIcao(recent, m) ==
    \E i \in 1..Len(recent) : recent[i] = m.icao24

_is_duplicate(recent, m) ==
    \E i \in 1..Len(recent) : recent[i] = _message_key(m)

\* a size trigger that fires one message late
SizeTriggerLate(queue) == Len(queue) > batch_size

\* the two flush triggers of add_message
SizeTrigger(queue) == Len(queue) >= batch_size

\* a time trigger that needs more than the timeout
TimeTriggerStrict == now - last_flush > batch_timeout

TimeTrigger == now - last_flush >= batch_timeout

----------------------------------------------------------------------------
(* DatabaseManager and the functions of database_manager.py *)

\* The attributes of class DatabaseManager: the class body ends with
\* get_connection; "def batch_insert_messages" starts at column 0 and is a
\* module-level function, the defs after its return statement are local to it.
DatabaseManagerAttrs ==
    {"__init__", "_init_connection_pool", "_verify_connection", "get_connection"}

HasAircraft(aircraft, icao) == \E i \in 1..Len(aircraft) : aircraft[i].icao24 = icao

\* REPLACE INTO aircraft: the stored row gives way to the new one
ReplaceRow(aircraft, row) ==
    IF HasAircraft(aircraft, row.icao24)
    THEN [i \in 1..Len(aircraft) |->
            IF aircraft[i].icao24 = row.icao24 THEN row ELSE aircraft[i]]
    ELSE Append(aircraft, row)

\* INSERT ... ON DUPLICATE KEY UPDATE callsign = COALESCE(VALUES(callsign),
\* callsign), last_seen = VALUES(last_seen)
UpsertRow(aircraft, row) ==
    IF HasAircraft(aircraft, row.icao24)
    THEN [i \in 1..Len(aircraft) |->
            IF aircraft[i].icao24 = row.icao24
            THEN [aircraft[i] EXCEPT
                    !.callsign = IF row.callsign # None THEN row.callsign ELSE @,
                    !.last_seen = row.last_seen]
            ELSE aircraft[i]]
    ELSE Append(aircraft, row)

RECURSIVE AircraftData(_, _)
\* aircraft_data: one tuple per distinct icao24, from its first message
AircraftData(batch, seen_icao) ==
    IF batch = <<>> THEN <<>>
    ELSE LET msg == Head(batch) IN
         IF msg.icao24 # "" /\ msg.icao24 \notin seen_icao
         THEN <<[icao24 |-> msg.icao24, callsign |-> msg.callsign,
                 first_seen |-> msg.timestamp, last_seen |-> msg.timestamp]>>
              \o AircraftData(Tail(batch), seen_icao \cup {msg.icao24})
         ELSE AircraftData(Tail(batch), seen_icao)

RECURSIVE ExecuteUpserts(_, _)
ExecuteUpserts(aircraft, rows) ==
    IF rows = <<>> THEN aircraft
    ELSE ExecuteUpserts(UpsertRow(aircraft, Head(rows)), Tail(rows))

_upsert_aircraft(aircraft, batch) ==
    ExecuteUpserts(aircraft, AircraftData(batch, {}))

MessageRow(msg) ==
    [icao24 |-> msg.icao24, timestamp |-> msg.timestamp,
     callsign |-> msg.callsign, lat |-> msg.lat, lon |-> msg.lon]

HasPosition(msg) == msg.lat # None /\ msg.lon # None

PositionRow(msg) ==
    [icao24 |-> msg.icao24, timestamp |-> msg.timestamp,
     lat |-> msg.lat, lon |-> msg.lon]

_insert_positions(positions, batch) ==
    LET with == SelectSeq(batch, HasPosition) IN
    positions \o [i \in 1..Len(with) |-> PositionRow(with[i])]

\* the foreign keys of messages and positions
ForeignKeysHold(d) ==
    /\ \A i \in 1..Len(d.messages) : HasAircraft(d.aircraft, d.messages[i].icao24)
    /\ \A i \in 1..Len(d.positions) : HasAircraft(d.aircraft, d.positions[i].icao24)

\* the result of a call: the exception raised ("" for none), the value
\* returned, and the committed tables afterwards
Returned(value, d) == [raised |-> "", inserted |-> value, db |-> d]

Raised(exc, d) == [raised |-> exc, inserted |-> 0, db |-> d]

\* get_connection around a unit of work that ended with exception exc ("" for
\* none) and left the tables txn uncommitted: commit on success; on MySQLError
\* rollback; on any other exception only close(), which drops the transaction
get_connection(d, txn, exc) == IF exc = "" THEN txn ELSE d

\* the function batch_insert_messages(self, messages) with self a
\* DatabaseManager, under a server that fails the step named by fault
batch_insert_messages(d, batch, fault) ==
    IF batch = <<>> THEN Returned(0, d)
    ELSE IF fault = "pool" THEN Raised("MySQLError", get_connection(d, d, "MySQLError"))
    ELSE IF "_upsert_aircraft" \notin DatabaseManagerAttrs
         THEN Raised("AttributeError", get_connection(d, d, "AttributeError"))
    ELSE LET t1 == [d EXCEPT !.aircraft = _upsert_aircraft(d.aircraft, batch)]
             t2 == [t1 EXCEPT !.messages =
                       @ \o [i \in 1..Len(batch) |-> MessageRow(batch[i])]]
             t3 == [t2 EXCEPT !.positions = _insert_positions(@, batch)]
         IN  IF fault = "upsert"
             THEN Raised("MySQLError", get_connection(d, d, "MySQLError"))
             ELSE IF fault = "insert" \/ ~ForeignKeysHold(t2)
             THEN Raised("MySQLError", get_connection(d, t1, "MySQLError"))
             ELSE IF "_insert_positions" \notin DatabaseManagerAttrs
             THEN Raised("AttributeError", get_connection(d, t2, "AttributeError"))
             ELSE IF fault = "positions"
             THEN Raised("MySQLError", get_connection(d, t2, "MySQLError"))
             ELSE IF fault = "commit"
             THEN Raised("MySQLError", get_connection(d, t3, "MySQLError"))
             ELSE Returned(Len(batch), get_connection(d, t3, ""))

\* the expression self.db.batch_insert_messages(messages) in _flush_batch
CallWriter(d, batch, fault) ==
    IF "batch_insert_messages" \in DatabaseManagerAttrs
    THEN batch_insert_messages(d, batch, fault)
    ELSE Raised("AttributeError", d)

----------------------------------------------------------------------------
(* The processor and the service threads *)

\* the tables the service is started on: the rows an earlier run left for
\* aircraft A1; aircraft B2 has not been seen
InitialDb ==
    [aircraft |-> <<[icao24 |-> "A1", callsign |-> "CS0",
                     first_seen |-> "t0", last_seen |-> "t0"]>>,
     messages |-> <<[icao24 |-> "A1", timestamp |-> "t0", callsign |-> "CS0",
                     lat |-> None, lon |-> None]>>,
     positions |-> <<>>]

NoRun == [keys |-> <<>>, dup |-> FALSE, elapsed |-> FALSE, flushes |-> 0, lastlen |-> 0]

InitProc ==
    /\ batch_size \in 1..MaxBatchSize
    /\ batch_timeout \in 1..MaxTimeout
    /\ enable_deduplication \in BOOLEAN
    /\ message_queue = <<>>
    /\ recent_messages = <<>>
    /\ stats = [messages_received |-> 0, messages_processed |-> 0,
                messages_discarded |-> 0, batches_written |-> 0, errors |-> 0]
    /\ now = 0
    /\ last_flush = 0
    /\ lock = "free"
    /\ running = TRUE
    /\ pc = [t \in Threads |-> IF t = "main" THEN "read" ELSE "p_loop"]
    /\ op = [t \in Threads |-> "none"]
    /\ message = NoMessage
    /\ messages = [t \in Threads |-> <<>>]
    /\ db = InitialDb
    /\ adds = <<>>
    /\ handed = <<>>
    /\ since = NoRun
    /\ spc = "loop"

\* a lock that is never waited for
CanAcquireAlways == TRUE

\* "with self.lock": the lock can be taken when no thread holds it
CanAcquire == lock = "free"

\* an except clause for the driver's errors alone
CatchesMySQLError(exc) == exc = "MySQLError"

\* "except Exception" in _flush_batch: which exceptions of the writer it catches
Catches(exc) == TRUE

\* an except clause that also restarts the timeout
RestartTimeout(last, t) == t

\* self.last_flush after the except clause of _flush_batch: the assignment is
\* in the try block after the call, the except clause has none
AfterFailedWrite(last, t) == last

\* a failed write that puts its batch back: self.message_queue.extend(messages)
Requeue(queue, batch) == queue \o batch

\* the pending queue after a failed write: the re-queue of the batch is
\* commented out, the queue stays as the clear left it
AfterFailure(queue, batch) == queue

\* a shutdown that reports right after the forced flush
ReturnSkipsDisconnect(t) ==
    CASE op[t] = "add_message" -> "recv"
      [] op[t] = "force_flush" -> "s_stats"
      [] op[t] = "periodic_flush" -> "p_loop"
      [] OTHER -> pc[t]

\* where a thread continues when its operation returns
ReturnTo(t) ==
    CASE op[t] = "add_message" -> "recv"
      [] op[t] = "force_flush" -> "s_disc"
      [] op[t] = "periodic_flush" -> "p_loop"
      [] OTHER -> pc[t]

\* a return that leaves the with block without releasing the lock
ReturnHolding(t) ==
    /\ pc' = [pc EXCEPT ![t] = ReturnTo(t)]
    /\ op' = [op EXCEPT ![t] = "none"]
    /\ lock' = lock

\* the operation of thread t returns and its "with self.lock" block ends
Return(t) ==
    /\ pc' = [pc EXCEPT ![t] = ReturnTo(t)]
    /\ op' = [op EXCEPT ![t] = "none"]
    /\ lock' = "free"

\* a loop condition that also ends the loop when the connection is lost
RunningAndConnected == running /\ connected

\* main.is_running, the running_flag of read_messages
is_running == running

\* signal_handler: running = False
signal_handler ==
    /\ running
    /\ running' = FALSE
    /\ UNCHANGED <<clientVars, spc, writerVars, decodeVars, batch_size, batch_timeout, enable_deduplication, message_queue,
                   recent_messages, stats, last_flush, lock, now, pc, op, message,
                   messages, db, adds, handed, since>>

\* time passes
Tick ==
    /\ now < MaxTime
    /\ now' = now + 1
    /\ since' = IF since.keys = <<>> THEN since
                ELSE [since EXCEPT !.elapsed = @ \/ (now + 1 - last_flush >= batch_timeout)]
    /\ UNCHANGED <<clientVars, spc, writerVars, decodeVars, batch_size, batch_timeout, enable_deduplication, message_queue,
                   recent_messages, stats, last_flush, lock, running, pc, op, message,
                   messages, db, adds, handed>>

\* an except branch that leaves the connection as it is
NoDisconnect == UNCHANGED <<socket, connected>>

\* Dump1090Client.disconnect
disconnect ==
    /\ socket' = None
    /\ connected' = FALSE

\* the client's variables but its connection
clientRest == <<reconnect_interval, max_reconnect_interval, buffer, cpc,
                current_reconnect_interval, waits, lastrun, connects, reads,
                delivered, recv_result, sink_failed, stream, mark>>

\* read_messages as the processor sees it: "while running_flag()" with a
\* connect that succeeds; when the flag is false the reader calls
\* self.disconnect() and returns, and run() calls shutdown(), which calls
\* force_flush()
ReaderPoll ==
    /\ pc["main"] = "read"
    /\ IF running
       THEN /\ pc' = [pc EXCEPT !["main"] = "recv"] /\ op' = op
            /\ socket' = "open" /\ connected' = TRUE
       ELSE /\ pc' = [pc EXCEPT !["main"] = "s_lock"]
            /\ op' = [op EXCEPT !["main"] = "force_flush"]
            /\ disconnect
    /\ UNCHANGED <<clientRest, spc, writerVars, decodeVars, batch_size, batch_timeout, enable_deduplication, message_queue,
                   recent_messages, stats, last_flush, lock, now, running, message,
                   messages, db, adds, handed, since>>

\* read_messages: no further line in this read
ReaderIdle ==
    /\ pc["main"] = "recv"
    /\ pc' = [pc EXCEPT !["main"] = "read"]
    /\ UNCHANGED <<clientVars, spc, writerVars, decodeVars, batch_size, batch_timeout, enable_deduplication, message_queue,
                   recent_messages, stats, last_flush, lock, now, running, op, message,
                   messages, db, adds, handed, since>>

\* message_callback: a line parsed to m; self.processor.add_message(m)
message_callback(m) ==
    /\ pc["main"] = "recv"
    /\ Len(adds) < MaxAdds
    /\ pc' = [pc EXCEPT !["main"] = "a_lock"]
    /\ op' = [op EXCEPT !["main"] = "add_message"]
    /\ message' = m
    /\ UNCHANGED <<clientVars, spc, writerVars, decodeVars, batch_size, batch_timeout, enable_deduplication, message_queue,
                   recent_messages, stats, last_flush, lock, now, running,
                   messages, db, adds, handed, since>>

\* add_message: "with self.lock"
AddLock ==
    /\ pc["main"] = "a_lock"
    /\ CanAcquire
    /\ lock' = "main"
    /\ pc' = [pc EXCEPT !["main"] = "a_body"]
    /\ UNCHANGED <<clientVars, spc, writerVars, decodeVars, batch_size, batch_timeout, enable_deduplication, message_queue,
                   recent_messages, stats, last_flush, now, running, op, message,
                   messages, db, adds, handed, since>>

\* add_message: the body of the with block up to the call of _flush_batch
add_message ==
    /\ pc["main"] = "a_body"
    /\ \E start \in BOOLEAN :
       LET dup == enable_deduplication /\ _is_duplicate(recent_messages, message)
           queue == IF dup THEN message_queue ELSE Append(message_queue, message)
           run == IF start THEN [NoRun EXCEPT !.elapsed = TimeTrigger] ELSE since
       IN  /\ start => message_queue = <<>>
           /\ stats' = [stats EXCEPT
                          !.messages_received = @ + 1,
                          !.messages_discarded = IF dup THEN @ + 1 ELSE @]
           /\ message_queue' = queue
           /\ recent_messages' =
                 IF dup THEN recent_messages
                 ELSE DequeAppend(recent_messages, _message_key(message))
           /\ adds' = Append(adds, [msg |-> message, queued |-> ~dup])
           /\ since' = IF ~start /\ since.keys = <<>> THEN since
                       ELSE [run EXCEPT !.keys = Append(@, _message_key(message)),
                                        !.dup = @ \/ dup]
           /\ IF ~dup /\ (SizeTrigger(queue) \/ TimeTrigger)
              THEN pc' = [pc EXCEPT !["main"] = "f_copy"] /\ UNCHANGED <<op, lock>>
              ELSE Return("main")
    /\ UNCHANGED <<clientVars, spc, writerVars, decodeVars, batch_size, batch_timeout, enable_deduplication, last_flush, now,
                   running, message, messages, db, handed>>

\* force_flush: "with self.lock", then _flush_batch
force_flush ==
    /\ pc["main"] = "s_lock"
    /\ CanAcquire
    /\ lock' = "main"
    /\ pc' = [pc EXCEPT !["main"] = "f_copy"]
    /\ UNCHANGED <<clientVars, spc, writerVars, decodeVars, batch_size, batch_timeout, enable_deduplication, message_queue,
                   recent_messages, stats, last_flush, now, running, op, message,
                   messages, db, adds, handed, since>>

\* a _flush_batch that goes on with an empty queue
NeverEmpty(queue) == FALSE

\* _flush_batch: "if not self.message_queue"
NothingPending(queue) == queue = <<>>

\* _flush_batch: "if not self.message_queue: return", then
\* messages = list(self.message_queue)
FlushCopy(t) ==
    /\ pc[t] = "f_copy"
    /\ IF NothingPending(message_queue)
       THEN Return(t) /\ UNCHANGED <<messages, since>>
       ELSE /\ messages' = [messages EXCEPT ![t] = message_queue]
            /\ pc' = [pc EXCEPT ![t] = "f_clear"]
            /\ since' = IF since.keys = <<>> THEN since
                        ELSE [since EXCEPT !.flushes = @ + 1,
                                           !.lastlen = Len(message_queue)]
            /\ UNCHANGED <<op, lock>>
    /\ UNCHANGED <<clientVars, spc, writerVars, decodeVars, batch_size, batch_timeout, enable_deduplication, message_queue,
                   recent_messages, stats, last_flush, now, running, message,
                   db, adds, handed>>

\* _flush_batch: self.message_queue.clear()
FlushClear(t) ==
    /\ pc[t] = "f_clear"
    /\ message_queue' = <<>>
    /\ pc' = [pc EXCEPT ![t] = "f_write"]
    /\ UNCHANGED <<clientVars, spc, writerVars, decodeVars, batch_size, batch_timeout, enable_deduplication,
                   recent_messages, stats, last_flush, lock, now, running, op, message,
                   messages, db, adds, handed, since>>

\* _flush_batch: the try block around self.db.batch_insert_messages(messages)
\* and its except clause; an exception it does not catch leaves the operation
\* (the with block releases the lock)
FlushWrite(t, fault) ==
    /\ pc[t] = "f_write"
    /\ LET r == CallWriter(db, messages[t], fault) IN
       /\ db' = r.db
       /\ handed' = Append(handed, [by |-> op[t], batch |-> messages[t],
                                    raised |-> r.raised, elapsed |-> TimeTrigger])
       /\ IF r.raised = ""
          THEN /\ stats' = [stats EXCEPT !.messages_processed = @ + r.inserted,
                                         !.batches_written = @ + 1]
               /\ last_flush' = now
               /\ Return(t)
          ELSE IF Catches(r.raised)
          THEN /\ stats' = [stats EXCEPT !.errors = @ + 1]
               /\ last_flush' = AfterFailedWrite(last_flush, now)
               /\ Return(t)
          ELSE /\ UNCHANGED <<stats, last_flush, op>>
               /\ pc' = [pc EXCEPT ![t] = "raised"]
               /\ lock' = "free"
       /\ message_queue' = IF r.raised = "" THEN message_queue
                            ELSE AfterFailure(message_queue, messages[t])
    /\ messages' = [messages EXCEPT ![t] = <<>>]
    /\ UNCHANGED <<clientVars, spc, writerVars, decodeVars, batch_size, batch_timeout, enable_deduplication,
                   recent_messages, now, running, message, adds, since>>

\* shutdown: self.client.disconnect()
ShutdownDisconnect ==
    /\ pc["main"] = "s_disc"
    /\ pc' = [pc EXCEPT !["main"] = "s_stats"]
    /\ disconnect
    /\ UNCHANGED <<clientRest, spc, writerVars, decodeVars, batch_size, batch_timeout, enable_deduplication, message_queue,
                   recent_messages, stats, last_flush, lock, now, running, op, message,
                   messages, db, adds, handed, since>>

\* a get_stats that reads without the lock
StatsNoLock == TRUE

\* get_stats: "with self.lock" around the copy of the counters and the read of
\* the queue length
StatsLock == CanAcquire

\* shutdown: proc_stats = self.processor.get_stats(), the final log lines
get_stats ==
    /\ pc["main"] = "s_stats"
    /\ StatsLock
    /\ pc' = [pc EXCEPT !["main"] = "done"]
    /\ UNCHANGED <<clientVars, spc, writerVars, decodeVars, batch_size, batch_timeout, enable_deduplication, message_queue,
                   recent_messages, stats, last_flush, lock, now, running, op, message,
                   messages, db, adds, handed, since>>

\* the flush thread is a daemon: it runs only while the main thread lives
TimerAlive == pc["main"] # "done"

\* periodic_flush: "while running_flag()"
PeriodicPoll ==
    /\ TimerAlive
    /\ pc["timer"] = "p_loop"
    /\ pc' = [pc EXCEPT !["timer"] = IF running THEN "p_lock" ELSE "p_done"]
    /\ UNCHANGED <<clientVars, spc, writerVars, decodeVars, batch_size, batch_timeout, enable_deduplication, message_queue,
                   recent_messages, stats, last_flush, lock, now, running, op, message,
                   messages, db, adds, handed, since>>

\* periodic_flush: time.sleep(0.1), then "with self.lock"
PeriodicLock ==
    /\ TimerAlive
    /\ pc["timer"] = "p_lock"
    /\ CanAcquire
    /\ lock' = "timer"
    /\ pc' = [pc EXCEPT !["timer"] = "p_body"]
    /\ op' = [op EXCEPT !["timer"] = "periodic_flush"]
    /\ UNCHANGED <<clientVars, spc, writerVars, decodeVars, batch_size, batch_timeout, enable_deduplication, message_queue,
                   recent_messages, stats, last_flush, now, running, message,
                   messages, db, adds, handed, since>>

\* periodic_flush: the two conditions inside the with block
periodic_flush ==
    /\ TimerAlive
    /\ pc["timer"] = "p_body"
    /\ IF TimeTrigger /\ message_queue # <<>>
       THEN pc' = [pc EXCEPT !["timer"] = "f_copy"] /\ UNCHANGED <<op, lock>>
       ELSE Return("timer")
    /\ UNCHANGED <<clientVars, spc, writerVars, decodeVars, batch_size, batch_timeout, enable_deduplication, message_queue,
                   recent_messages, stats, last_flush, now, running, message,
                   messages, db, adds, handed, since>>

\* _flush_batch as run by the main thread (from add_message or force_flush)
MainFlush ==
    \/ FlushCopy("main")
    \/ FlushClear("main")
    \/ \E fault \in Faults : FlushWrite("main", fault)

\* _flush_batch as run by the flush thread
TimerFlush ==
    /\ TimerAlive
    /\ \/ FlushCopy("timer")
       \/ FlushClear("timer")
       \/ \E fault \in Faults : FlushWrite("timer", fault)

MainStep ==
    \/ ReaderPoll
    \/ ReaderIdle
    \/ \E m \in Msgs : message_callback(m)
    \/ AddLock
    \/ add_message
    \/ force_flush
    \/ MainFlush
    \/ ShutdownDisconnect
    \/ get_stats

TimerStep ==
    \/ PeriodicPoll
    \/ PeriodicLock
    \/ periodic_flush
    \/ TimerFlush

NextProc == signal_handler \/ Tick \/ MainStep \/ TimerStep

\* the processor's, the writer's and the client's variables
serviceVars == <<procVars, clientVars, writerVars, decodeVars>>

\* print_stats: "while is_running()", then time.sleep(60)
StatsPoll ==
    /\ TimerAlive
    /\ spc = "loop"
    /\ spc' = IF is_running THEN "stats" ELSE "done"
    /\ UNCHANGED serviceVars

\* print_stats: proc_stats = self.processor.get_stats(), one critical section
\* that changes nothing
StatsSnapshot ==
    /\ TimerAlive
    /\ spc = "stats"
    /\ StatsLock
    /\ spc' = "dbstats"
    /\ UNCHANGED serviceVars

\* print_stats: db_stats = self.db.get_stats(); the class has no such
\* attribute, the AttributeError ends the thread
StatsDb ==
    /\ TimerAlive
    /\ spc = "dbstats"
    /\ spc' = IF "get_stats" \in DatabaseManagerAttrs THEN "loop" ELSE "raised"
    /\ UNCHANGED serviceVars

print_stats == StatsPoll \/ StatsSnapshot \/ StatsDb

NextStats == NextProc \/ print_stats

----------------------------------------------------------------------------
(* Dump1090Client *)

Min(a, b) == IF a <= b THEN a ELSE b

\* what one recv can return after decode('utf-8', errors='ignore')
Chunks == { <<"a">>, <<"\n">>, <<" ", "a">>, <<"a", "\n">>, <<"\n", "b">>,
            <<"\n", "b", "\n">> }

\* the lines on which the callback can raise
SinkRejects == { <<"a">> }

HasNewline(s) == \E i \in 1..Len(s) : s[i] = "\n"

FirstNewline(s) == CHOOSE i \in 1..Len(s) : s[i] = "\n" /\ \A j \in 1..(i - 1) : s[j] # "\n"

RECURSIVE LStrip(_)
LStrip(s) == IF s # <<>> /\ Head(s) = " " THEN LStrip(Tail(s)) ELSE s

RECURSIVE RStrip(_)
RStrip(s) ==
    IF s # <<>> /\ s[Len(s)] = " " THEN RStrip(SubSeq(s, 1, Len(s) - 1)) ELSE s

\* str.strip()
Strip(s) == RStrip(LStrip(s))

RECURSIVE ProcessLines(_, _)
\* "while '\n' in self.buffer": the lines handed to the callback, and the
\* buffer that is left
ProcessLines(buf, out) ==
    IF ~HasNewline(buf) THEN [buffer |-> buf, lines |-> out]
    ELSE LET i == FirstNewline(buf)
             line == Strip(SubSeq(buf, 1, i - 1))
             rest == SubSeq(buf, i + 1, Len(buf))
         IN  ProcessLines(rest, IF line # <<>> THEN Append(out, line) ELSE out)

\* a backoff that doubles without the ceiling
NextIntervalUncapped(current) == current * 2

\* the interval after a failed connect: min(current * 2, max)
NextInterval(current) == Min(current * 2, max_reconnect_interval)

\* a connect that keeps the interval it found
KeepInterval(current) == current

\* the interval after a successful connect
ResetInterval(current) == reconnect_interval

InitClient ==
    /\ reconnect_interval \in 1..MaxInterval
    /\ max_reconnect_interval \in 1..MaxInterval
    /\ connected = FALSE
    /\ socket = None
    /\ buffer = <<>>
    /\ cpc = "loop"
    /\ current_reconnect_interval = reconnect_interval
    /\ waits = <<>>
    /\ lastrun = 0
    /\ connects = 0
    /\ reads = 0
    /\ delivered = <<>>
    /\ recv_result = "none"
    /\ sink_failed = <<>>
    /\ stream = <<>>
    /\ mark = 0

\* the client as constructed, with the smallest intervals
ClientAtRest == InitClient /\ reconnect_interval = 1 /\ max_reconnect_interval = 1

\* the processor as constructed, with one configuration
ProcAtRest ==
    /\ InitProc
    /\ batch_size = 1 /\ batch_timeout = 1 /\ enable_deduplication

\* the processor's variables but the running flag
procRest == <<batch_size, batch_timeout, enable_deduplication,
              message_queue, recent_messages, stats, last_flush, lock,
              now, pc, op, message, messages, db, adds, handed, since>>

\* signal_handler, as the reader sees it
ClientSignal ==
    /\ running
    /\ running' = FALSE
    /\ UNCHANGED <<procRest, spc, writerVars, decodeVars, clientVars>>

\* read_messages: "while running_flag()", "if not self.connected"; after the
\* loop, self.disconnect()
ClientLoop ==
    /\ cpc = "loop"
    /\ IF is_running
       THEN /\ cpc' = IF connected THEN "recv" ELSE "connect"
            /\ UNCHANGED <<socket, connected>>
       ELSE /\ cpc' = "returned"
            /\ socket' = None
            /\ connected' = FALSE
    /\ UNCHANGED <<procRest, spc, writerVars, decodeVars, reconnect_interval, max_reconnect_interval, buffer,
                   current_reconnect_interval, waits, lastrun, connects, reads,
                   delivered, running, recv_result, sink_failed, stream, mark>>

\* self.connect() returns True: the interval is reset
ConnectOk ==
    /\ cpc = "connect"
    /\ connects < MaxConnects
    /\ socket' = "open"
    /\ connected' = TRUE
    /\ current_reconnect_interval' = ResetInterval(current_reconnect_interval)
    /\ connects' = connects + 1
    /\ lastrun' = Len(waits)
    /\ waits' = <<>>
    /\ cpc' = "recv"
    /\ stream' = <<>>
    /\ mark' = Len(delivered)
    /\ recv_result' = "none"
    /\ UNCHANGED <<procRest, spc, writerVars, decodeVars, reconnect_interval, max_reconnect_interval, buffer, reads,
                   delivered, running, sink_failed>>

\* self.connect() returns False: sleep current_reconnect_interval, then
\* double it up to the maximum, and continue
ConnectFail ==
    /\ cpc = "connect"
    /\ Len(waits) < MaxFailures
    /\ socket' = "unconnected"
    /\ connected' = FALSE
    /\ waits' = Append(waits, current_reconnect_interval)
    /\ current_reconnect_interval' = NextInterval(current_reconnect_interval)
    /\ cpc' = "loop"
    /\ UNCHANGED <<procRest, spc, writerVars, decodeVars, reconnect_interval, max_reconnect_interval, buffer, lastrun,
                   connects, reads, delivered, running, recv_result, sink_failed,
                   stream, mark>>

\* the lines of one read on which callback(line) raises, in order
Failing(lines, fails) == SelectSeq(lines, LAMBDA l : l \in fails)

\* a line loop that an exception of the callback would leave: the lines up to
\* and including the first one on which the callback raises
CallsUntilError(lines, fails) ==
    IF \E i \in 1..Len(lines) : lines[i] \in fails
    THEN SubSeq(lines, 1, CHOOSE i \in 1..Len(lines) :
                             /\ lines[i] \in fails
                             /\ \A j \in 1..(i - 1) : lines[j] \notin fails)
    ELSE lines

\* the lines callback(line) is called with in one read: "try: callback(line)
\* except Exception: logger.error(...)" is inside the while loop, so the loop
\* goes on to the next line after an exception
CallbackCalls(lines, fails) == lines

\* recv returns data: decode, append to the buffer, hand every complete line
\* to the callback; the callback raises on the lines in fails
RecvData(chunk, fails) ==
    /\ cpc = "recv"
    /\ reads < MaxReads
    /\ LET r == ProcessLines(buffer \o chunk, <<>>) IN
       /\ buffer' = r.buffer
       /\ delivered' = delivered \o CallbackCalls(r.lines, fails)
       /\ sink_failed' = sink_failed \o Failing(CallbackCalls(r.lines, fails), fails)
    /\ reads' = reads + 1
    /\ stream' = stream \o chunk
    /\ recv_result' = "data"
    /\ cpc' = "loop"
    /\ UNCHANGED <<procRest, spc, writerVars, decodeVars, reconnect_interval, max_reconnect_interval, connected, socket,
                   current_reconnect_interval, waits, lastrun, connects, running, mark>>

\* recv returns b"": the connection was closed by the peer
RecvEof ==
    /\ cpc = "recv"
    /\ disconnect
    /\ recv_result' = "eof"
    /\ cpc' = "loop"
    /\ UNCHANGED <<procRest, spc, writerVars, decodeVars, reconnect_interval, max_reconnect_interval, buffer,
                   current_reconnect_interval, waits, lastrun, connects, reads,
                   delivered, running, sink_failed, stream, mark>>

\* recv raises socket.timeout
RecvTimeout ==
    /\ cpc = "recv"
    /\ recv_result' = "timeout"
    /\ cpc' = "loop"
    /\ UNCHANGED <<procRest, spc, writerVars, decodeVars, reconnect_interval, max_reconnect_interval, connected, socket,
                   buffer, current_reconnect_interval, waits, lastrun, connects,
                   reads, delivered, running, sink_failed, stream, mark>>

\* recv raises socket.error
RecvError ==
    /\ cpc = "recv"
    /\ disconnect
    /\ recv_result' = "error"
    /\ cpc' = "loop"
    /\ UNCHANGED <<procRest, spc, writerVars, decodeVars, reconnect_interval, max_reconnect_interval, buffer,
                   current_reconnect_interval, waits, lastrun, connects, reads,
                   delivered, running, sink_failed, stream, mark>>

read_messages ==
    \/ ClientLoop
    \/ ConnectOk
    \/ ConnectFail
    \/ \E chunk \in Chunks : \E fails \in SUBSET SinkRejects : RecvData(chunk, fails)
    \/ RecvEof
    \/ RecvTimeout
    \/ RecvError

NextClient == ClientSignal \/ read_messages

----------------------------------------------------------------------------
(* DatabaseManager: the connection pool and get_connection *)

\* the methods the service calls on self.db after construction
\* (data_processor.py:94, main.py:118)
Called == {"batch_insert_messages", "get_stats"}

\* an except clause that only re-raises
OnMySQLErrorNoRollback(conn) == IF conn THEN "close" ELSE "end"

\* get_connection: "except MySQLError: if conn: conn.rollback() ... raise"
OnMySQLError(conn) == IF conn THEN "rollback" ELSE "end"

\* DatabaseManager() is about to run
InitWriter ==
    /\ pool_size \in 1..MaxPool
    /\ checked_out = 0
    /\ wpc = "new"
    /\ unit = None
    /\ calls = <<>>
    /\ pending = ""
    /\ wlog = <<>>

\* the writer as constructed: the pool exists and startup verification has
\* committed and released its connection
WriterAtRest ==
    /\ pool_size = 1
    /\ checked_out = 0
    /\ wpc = "ready"
    /\ unit = None
    /\ calls = <<>>
    /\ pending = ""
    /\ wlog = <<>>

\* what is not the writer's
notWriter == <<procVars, clientVars, spc, decodeVars>>

\* the unit of work ends: with exception exc ("" for none) it is logged
EndUnit(exc, made) ==
    /\ wlog' = Append(wlog, [unit |-> unit, raised |-> exc, calls |-> made])
    /\ wpc' = IF unit = "_verify_connection" /\ exc # "" THEN "failed" ELSE "ready"
    /\ unit' = None
    /\ calls' = <<>>
    /\ pending' = ""

\* _init_connection_pool: MySQLConnectionPool(...) and then
\* self._verify_connection(); a MySQLError of the pool is logged and raised
\* again
_init_connection_pool(ok) ==
    /\ wpc = "new"
    /\ IF ok
       THEN /\ wpc' = "acquire"
            /\ unit' = "_verify_connection"
       ELSE /\ wpc' = "failed"
            /\ UNCHANGED unit
    /\ UNCHANGED <<notWriter, pool_size, checked_out, calls, pending, wlog>>

\* self.db.<u>(...): the attribute lookup on the DatabaseManager instance
CallUnit(u) ==
    /\ wpc = "ready"
    /\ Len(wlog) <= MaxUnits
    /\ IF u \in DatabaseManagerAttrs
       THEN /\ wpc' = "acquire"
            /\ unit' = u
            /\ UNCHANGED <<calls, pending, wlog>>
       ELSE /\ wlog' = Append(wlog, [unit |-> u, raised |-> "AttributeError",
                                     calls |-> <<>>])
            /\ UNCHANGED <<wpc, unit, calls, pending>>
    /\ UNCHANGED <<notWriter, pool_size, checked_out>>

\* get_connection: conn = self.pool.get_connection(); the pool raises
\* PoolError, a MySQLError, when all its connections are checked out, and the
\* server can refuse
PoolGet(ok) ==
    /\ wpc = "acquire"
    /\ IF ok /\ checked_out < pool_size
       THEN /\ checked_out' = checked_out + 1
            /\ calls' = <<"get_connection">>
            /\ wpc' = "work"
            /\ UNCHANGED <<unit, pending, wlog>>
       ELSE /\ OnMySQLError(FALSE) = "end"
            /\ EndUnit("MySQLError", <<>>)
            /\ UNCHANGED checked_out
    /\ UNCHANGED <<notWriter, pool_size>>

\* the body of the with block: its statements run, or one raises MySQLError
UnitWork(ok) ==
    /\ wpc = "work"
    /\ IF ok
       THEN wpc' = "commit" /\ pending' = ""
       ELSE wpc' = OnMySQLError(TRUE) /\ pending' = "MySQLError"
    /\ UNCHANGED <<notWriter, pool_size, checked_out, unit, calls, wlog>>

\* get_connection: conn.commit() after the yield
ConnCommit(ok) ==
    /\ wpc = "commit"
    /\ calls' = Append(calls, "commit")
    /\ IF ok
       THEN wpc' = "close" /\ pending' = ""
       ELSE wpc' = OnMySQLError(TRUE) /\ pending' = "MySQLError"
    /\ UNCHANGED <<notWriter, pool_size, checked_out, unit, wlog>>

\* get_connection: conn.rollback() in the except clause, then raise
ConnRollback ==
    /\ wpc = "rollback"
    /\ calls' = Append(calls, "rollback")
    /\ wpc' = "close"
    /\ UNCHANGED <<notWriter, pool_size, checked_out, unit, pending, wlog>>

\* get_connection: "finally: if conn: conn.close()" gives the connection
\* back to the pool
ConnClose ==
    /\ wpc = "close"
    /\ checked_out' = checked_out - 1
    /\ EndUnit(pending, Append(calls, "close"))
    /\ UNCHANGED <<notWriter, pool_size>>

NextWriter ==
    \/ \E ok \in BOOLEAN : _init_connection_pool(ok)
    \/ \E u \in Called : CallUnit(u)
    \/ \E ok \in BOOLEAN : PoolGet(ok)
    \/ \E ok \in BOOLEAN : UnitWork(ok)
    \/ \E ok \in BOOLEAN : ConnCommit(ok)
    \/ ConnRollback
    \/ ConnClose

----------------------------------------------------------------------------
(* The decoder (adsb_parser.py) and the path of its records to the aircraft *)
(* table.  A line is a sequence of characters; a word the parser never      *)
(* looks into ("MSG", "A1", "40.0") stands as one character.                *)

\* ADSBParser.MESSAGE_TYPES
MESSAGE_TYPES == {"SEL", "ID", "AIR", "STA", "CLK", "MSG"}

Comma == ","

Space == " "

RECURSIVE split(_)
\* str.split(','): the fields between the commas, one more than the commas
split(s) ==
    IF \A i \in 1..Len(s) : s[i] # Comma THEN <<s>>
    ELSE LET k == CHOOSE i \in 1..Len(s) :
                      s[i] = Comma /\ \A j \in 1..(i - 1) : s[j] # Comma
         IN <<SubSeq(s, 1, k - 1)>> \o split(SubSeq(s, k + 1, Len(s)))

RECURSIVE lstrip(_)
lstrip(s) == IF s # <<>> /\ Head(s) = Space THEN lstrip(Tail(s)) ELSE s

RECURSIVE rstrip(_)
rstrip(s) ==
    IF s # <<>> /\ s[Len(s)] = Space THEN rstrip(SubSeq(s, 1, Len(s) - 1)) ELSE s

\* str.strip()
strip(s) == rstrip(lstrip(s))

\* the Python string a sequence of characters is
Text(s) == IF s = <<>> THEN "" ELSE IF Len(s) = 1 THEN s[1] ELSE ToString(s)

\* _parse_int: int(value) if value and value.strip() else None; ValueError
\* gives None
_parse_int(value) ==
    LET w == strip(value) IN
    IF Len(w) = 1 /\ \E n \in 0..9 : ToString(n) = w[1]
    THEN CHOOSE n \in 0..9 : ToString(n) = w[1]
    ELSE None

\* the words float() accepts
Floats == {"40.0", "-75.0"}

\* _parse_float: float(value) if value and value.strip() else None;
\* ValueError gives None
_parse_float(value) ==
    LET w == strip(value) IN
    IF Len(w) = 1 /\ w[1] \in Floats THEN w[1] ELSE None

\* the words strptime accepts as a date and as a time
Dates == {"2024/01/01"}

Times == {"t1", "t2"}

\* a _parse_timestamp that gives up: None when a string is empty or strptime
\* raises ValueError
TimestampOrNone(date_str, time_str) ==
    IF /\ Len(date_str) = 1 /\ date_str[1] \in Dates
       /\ Len(time_str) = 1 /\ time_str[1] \in Times
    THEN time_str[1]
    ELSE None

\* _parse_timestamp: the parsed time, and datetime.utcnow() when a string is
\* empty or strptime raises ValueError; it never returns None
_parse_timestamp(date_str, time_str) ==
    IF /\ Len(date_str) = 1 /\ date_str[1] \in Dates
       /\ Len(time_str) = 1 /\ time_str[1] \in Times
    THEN time_str[1]
    ELSE "utcnow"

\* parse: "if len(fields) < 10: return None"
TooShort(fields) == Len(fields) < 10

\* a parser that takes every first field
AnyType(message_type) == TRUE

\* parse: "if message_type not in self.MESSAGE_TYPES: return None"
KnownType(message_type) == message_type \in MESSAGE_TYPES

\* ADSBParser.parse.  The result is the sequence of the records returned:
\* empty for "return None", else the one dict, with the keys the processor
\* and the writer read (a key parse did not set reads as None through
\* msg.get).  Every index is guarded as in the source, so the "except
\* Exception: return None" branch is never taken.
parse(l) ==
    LET fields == split(l) IN
    IF TooShort(fields) THEN <<>>
    ELSE
    LET message_type == Text(fields[1]) IN
    IF ~KnownType(message_type) THEN <<>>
    ELSE
    LET specific == message_type = "MSG" /\ Len(fields) >= 22
        icao24 == IF Len(fields) > 4 THEN Text(strip(fields[5])) ELSE None
        timestamp == IF Len(fields) > 8
                     THEN _parse_timestamp(fields[7], fields[8]) ELSE None
    IN
    IF icao24 \in {None, ""} \/ timestamp = None THEN <<>>
    ELSE <<[icao24 |-> icao24,
            timestamp |-> timestamp,
            transmission_type |->
                IF Len(fields) > 1 THEN _parse_int(fields[2]) ELSE None,
            callsign |->
                IF specific /\ fields[11] # <<>>
                THEN Text(strip(fields[11])) ELSE None,
            lat |-> IF specific THEN _parse_float(fields[15]) ELSE None,
            lon |-> IF specific THEN _parse_float(fields[16]) ELSE None]>>

RECURSIVE join(_)
\* ",".join(fields)
join(fields) ==
    IF Len(fields) = 1 THEN fields[1]
    ELSE fields[1] \o <<Comma>> \o join(Tail(fields))

\* field i (from 1) of a BaseStation line with the given message type,
\* icao24, date, time and callsign fields
FieldAt(i, ty, icao, dt, tm, cs) ==
    CASE i = 1 -> ty
      [] i = 2 -> <<"3">>
      [] i = 5 -> icao
      [] i = 7 -> dt
      [] i = 8 -> tm
      [] i = 11 -> cs
      [] i = 15 -> <<"40.0">>
      [] i = 16 -> <<"-75.0">>
      [] OTHER -> <<>>

\* the numbers of fields on either side of the two thresholds of parse
FieldCounts == {1, 9, 10, 21, 22, MaxFields}

\* the lines dump1090 can send: known and unknown first fields, icao24 and
\* callsign fields that are present, padded, blank and empty, date and time
\* fields that are well-formed, malformed and empty
Lines ==
    { join([i \in 1..n |-> FieldAt(i, ty, icao, dt, tm, cs)]) :
        n \in FieldCounts,
        ty \in {<<"MSG">>, <<"STA">>, <<"XXX">>, <<Space, "MSG">>, <<>>},
        icao \in {<<"A1">>, <<Space, "A1", Space>>, <<"B2">>, <<Space>>, <<>>},
        dt \in {<<"2024/01/01">>, <<"01-01-2024">>},
        tm \in {<<"t1">>, <<"t2">>, <<"25:61">>, <<>>},
        cs \in {<<"CS1">>, <<"CS1", Space>>, <<Space>>, <<>>} }

\* what the lines received before have left in the batch: nothing, or the
\* record of one line
Earlier == { parse(l) : l \in Lines }

InitDecode ==
    /\ input_line \in Lines
    /\ parsed = <<>>
    /\ decoded \in Earlier
    /\ aircraft_table \in {<<>>, InitialDb.aircraft}
    /\ table_before = aircraft_table
    /\ dpc = "line"

\* no line in flight
DecodeAtRest ==
    /\ input_line = <<>>
    /\ parsed = <<>>
    /\ decoded = <<>>
    /\ aircraft_table = InitialDb.aircraft
    /\ table_before = aircraft_table
    /\ dpc = "idle"

notDecode == <<procVars, clientVars, spc, writerVars>>

\* message_callback: parsed = self.parser.parse(input_line); "if parsed:" the
\* record goes to the processor
DecodeLine ==
    /\ dpc = "line"
    /\ parsed' = parse(input_line)
    /\ decoded' = decoded \o parsed'
    /\ dpc' = "parsed"
    /\ UNCHANGED <<notDecode, input_line, aircraft_table, table_before>>

\* _upsert_aircraft on the batch of the decoded records
UpsertBatch ==
    /\ dpc = "parsed"
    /\ decoded # <<>>
    /\ table_before' = aircraft_table
    /\ aircraft_table' = _upsert_aircraft(aircraft_table, decoded)
    /\ dpc' = "stored"
    /\ UNCHANGED <<notDecode, input_line, parsed, decoded>>

NextDecode == DecodeLine \/ UpsertBatch

----------------------------------------------------------------------------
(* The recency deque over a long stream: add_message called by the reader   *)
(* alone, each call run to its return                                       *)

\* fresh messages sent after the deque is full
MaxExtra == 2

\* messages sent a second time
MaxResends == 1

\* the k-th message of the stream: the same aircraft at instant k
StreamMsg(k) ==
    [icao24 |-> "A1", timestamp |-> ToString(k), transmission_type |-> 3,
     callsign |-> None, lat |-> None, lon |-> None]

\* the calls made with the first message of the stream
FirstSent(log) ==
    Cardinality({ i \in 1..Len(log) : log[i].msg = StreamMsg(1) })

\* the messages of the stream sent so far, and the calls that sent the first
\* one again
Sent(log) == IF log = <<>> THEN 0 ELSE Len(log) - FirstSent(log) + 1

Resent(log) == IF log = <<>> THEN 0 ELSE FirstSent(log) - 1

\* the reader sends the first message again when the deque holds one key, is
\* one short of full, is full, and has just evicted its oldest key
ResendPoints == {1, RecentMaxLen - 1, RecentMaxLen, RecentMaxLen + 1}

\* add_message(m) from "with self.lock" to its return: the counters, the
\* duplicate test, the two appends and, on a trigger, _flush_batch with its
\* copy, clear and write
AddMessageCall(m) ==
    LET dup == enable_deduplication /\ _is_duplicate(recent_messages, m)
        queue == IF dup THEN message_queue ELSE Append(message_queue, m)
        flush == ~dup /\ (SizeTrigger(queue) \/ TimeTrigger)
        received == [stats EXCEPT
                       !.messages_received = @ + 1,
                       !.messages_discarded = IF dup THEN @ + 1 ELSE @]
    IN  /\ recent_messages' =
              IF dup THEN recent_messages
              ELSE DequeAppend(recent_messages, _message_key(m))
        /\ adds' = Append(adds, [msg |-> m, queued |-> ~dup])
        /\ IF ~flush
           THEN /\ message_queue' = queue
                /\ stats' = received
                /\ UNCHANGED <<last_flush, db, handed>>
           ELSE \E r \in { CallWriter(db, queue, fault) : fault \in Faults } :
                /\ db' = r.db
                /\ handed' = Append(handed, [by |-> "add_message", batch |-> queue,
                                             raised |-> r.raised,
                                             elapsed |-> TimeTrigger])
                /\ stats' =
                      IF r.raised = ""
                      THEN [received EXCEPT !.messages_processed = @ + r.inserted,
                                            !.batches_written = @ + 1]
                      ELSE IF Catches(r.raised)
                      THEN [received EXCEPT !.errors = @ + 1]
                      ELSE received
                /\ last_flush' = IF r.raised = "" THEN now
                                 ELSE IF Catches(r.raised)
                                 THEN AfterFailedWrite(last_flush, now)
                                 ELSE last_flush
                /\ message_queue' = IF r.raised = "" THEN <<>>
                                     ELSE AfterFailure(<<>>, queue)
        /\ UNCHANGED <<clientVars, spc, writerVars, decodeVars, batch_size,
                       batch_timeout, enable_deduplication, lock, now, running,
                       pc, op, message, messages, since>>

\* the reader sends the next message of the stream
SendNext ==
    /\ Sent(adds) < RecentMaxLen + MaxExtra
    /\ AddMessageCall(StreamMsg(Sent(adds) + 1))

\* the reader sends the first message of the stream once more
SendFirstAgain ==
    /\ Sent(adds) \in ResendPoints
    /\ Resent(adds) < MaxResends
    /\ AddMessageCall(StreamMsg(1))

\* time passes between two calls of the reader, at one of the points where it
\* may send the first message again
TickBetween ==
    /\ Sent(adds) \in ResendPoints
    /\ Tick

NextRecent == SendNext \/ SendFirstAgain \/ TickBetween

----------------------------------------------------------------------------
(* Specifications *)

Init == InitProc /\ ClientAtRest /\ WriterAtRest /\ DecodeAtRest

Spec == Init /\ [][NextProc]_vars

\* the operating system schedules both threads: a thread that can take a step
\* takes one
FairSpec == Spec /\ WF_vars(TimerStep) /\ WF_vars(MainStep)

\* the service with its statistics thread
SpecStats == Init /\ [][NextStats]_vars

\* a service configured to flush at two messages or after one unit of time,
\* with deduplication
InitLock == Init /\ batch_size = 2 /\ batch_timeout = 1 /\ enable_deduplication

\* the three threads are scheduled, and a thread blocked in "with self.lock"
\* gets the lock when it is free again and again: between two acquisitions the
\* flush thread sleeps 0.1 s, the statistics thread 60 s, and the reader
\* waits in recv
FairLockSpec ==
    /\ InitLock /\ [][NextStats]_vars
    /\ WF_vars(MainStep) /\ WF_vars(TimerStep) /\ WF_vars(print_stats)
    /\ SF_vars(AddLock) /\ SF_vars(force_flush) /\ SF_vars(get_stats)
    /\ SF_vars(PeriodicLock) /\ SF_vars(StatsSnapshot)

InitC == ProcAtRest /\ InitClient /\ WriterAtRest /\ DecodeAtRest

SpecClient == InitC /\ [][NextClient]_vars

InitW == ProcAtRest /\ ClientAtRest /\ InitWriter /\ DecodeAtRest

\* the construction of the writer and the calls made on it afterwards
SpecWriter == InitW /\ [][NextWriter]_vars

InitD == ProcAtRest /\ ClientAtRest /\ WriterAtRest /\ InitDecode

\* one line through message_callback and its record through _upsert_aircraft
SpecDecode == InitD /\ [][NextDecode]_vars

\* the processor as constructed, with one batch size and timeout
InitR ==
    /\ InitProc /\ batch_size = 1 /\ batch_timeout = 1
    /\ ClientAtRest /\ WriterAtRest /\ DecodeAtRest

\* a stream longer than the recency deque through add_message
SpecRecent == InitR /\ [][NextRecent]_vars

----------------------------------------------------------------------------
(* Claims about the processor *)

Last(s) == s[Len(s)]

Distinct(s) == \A i, j \in 1..Len(s) : i # j => s[i] # s[j]

\* a step in which the main thread runs the body of add_message
AddStep == pc["main"] = "a_body" /\ pc'["main"] # "a_body"

\* C1: with deduplication enabled, an add_message whose key equals the key of
\* the add_message call before it is not queued: it returns with
\* messages_discarded and messages_received one higher and the queue as it
\* was; and an add_message whose key is not in the recency set (the first of
\* the two) is appended to the queue.
C1_SecondIsDiscarded ==
    [][AddStep /\ enable_deduplication =>
         /\ (adds # <<>> /\ _message_key(Last(adds).msg) = _message_key(message)) =>
               /\ stats'.messages_discarded = stats.messages_discarded + 1
               /\ stats'.messages_received = stats.messages_received + 1
               /\ message_queue' = message_queue
               /\ pc'["main"] = "recv"
         /\ (\A i \in 1..Len(recent_messages) :
                 recent_messages[i] # _message_key(message)) =>
               /\ message_queue' = Append(message_queue, message)
               /\ stats'.messages_discarded = stats.messages_discarded
               /\ stats'.messages_received = stats.messages_received + 1]_vars

\* two consecutive adds with the same key and different contents have returned:
\* the first was queued, the second discarded
C1_Witness ==
    /\ enable_deduplication
    /\ Len(adds) >= 2
    /\ op["main"] = "none"
    /\ adds[Len(adds) - 1].queued
    /\ ~Last(adds).queued
    /\ adds[Len(adds) - 1].msg # Last(adds).msg
    /\ _message_key(adds[Len(adds) - 1].msg) = _message_key(Last(adds).msg)
    /\ stats.messages_discarded = 1

\* the add_message calls since the chosen one have all returned
RunReturned == since.keys # <<>> /\ op["main"] # "add_message"

OneFullFlush ==
    /\ since.flushes = 1
    /\ since.lastlen = batch_size
    /\ message_queue = <<>>

\* C2 as stated: after exactly batch_size adds with pairwise distinct keys
\* (all of them queued), starting from an empty queue, there was exactly one
\* flush, of batch_size records, and the queue is empty.
C2_Original ==
    (RunReturned /\ Len(since.keys) = batch_size /\ Distinct(since.keys)
       /\ ~since.dup)
        => OneFullFlush

\* C2 amended: the same, provided that less than batch_timeout has elapsed
\* since the last flush at every moment from the first add to the last.
C2_SizeTrigger ==
    (RunReturned /\ Len(since.keys) = batch_size /\ Distinct(since.keys)
       /\ ~since.dup /\ ~since.elapsed)
        => OneFullFlush

\* a batch of two was built from an empty queue and flushed by the second add
C2_Witness ==
    /\ RunReturned /\ Len(since.keys) = batch_size /\ Distinct(since.keys)
    /\ ~since.dup /\ ~since.elapsed
    /\ batch_size = 2
    /\ handed # <<>> /\ Len(Last(handed).batch) = 2
    /\ Last(handed).by = "add_message"

\* messages are pending, the timeout has elapsed, the service runs and the
\* reader is between two lines
PendingAtTimeout ==
    /\ message_queue # <<>>
    /\ now - last_flush >= batch_timeout
    /\ running
    /\ pc["main"] \in {"read", "recv"}

\* the flush thread has taken the pending messages out of the queue and passed
\* them to the writer
FlushedByTimer ==
    /\ message_queue = <<>>
    /\ handed # <<>>
    /\ Last(handed).by = "periodic_flush"

\* C3: when messages are pending and batch_timeout has elapsed since
\* last_flush, then, unless a further add_message starts or the service is
\* told to stop, the flush thread removes them from the queue and passes them
\* to the writer; and the flush thread starts a flush only when batch_timeout
\* has elapsed.
C3_TimeTrigger ==
    /\ PendingAtTimeout ~> (FlushedByTimer \/ ~running \/ op["main"] = "add_message")
    /\ [][(pc["timer"] = "p_body" /\ pc'["timer"] = "f_copy")
            => now - last_flush >= batch_timeout]_vars

\* one message was added, no add followed, and the flush thread flushed it
C3_Witness ==
    /\ FlushedByTimer
    /\ running
    /\ Len(adds) = 1
    /\ Len(Last(handed).batch) = 1
    /\ now - last_flush >= batch_timeout

RECURSIVE Flat(_)
\* the batches passed to the writer, one after the other
Flat(log) == IF log = <<>> THEN <<>> ELSE Head(log).batch \o Flat(Tail(log))

RECURSIVE Queued(_)
\* the messages add_message has appended to the queue, in the order of the adds
Queued(log) ==
    IF log = <<>> THEN <<>>
    ELSE (IF Head(log).queued THEN <<Head(log).msg>> ELSE <<>>) \o Queued(Tail(log))

FlushLabels == {"f_copy", "f_clear", "f_write"}

\* the batch a flush has taken out of the queue and not yet passed on
InFlight ==
    (IF pc["main"] = "f_write" THEN messages["main"] ELSE <<>>)
        \o (IF pc["timer"] = "f_write" THEN messages["timer"] ELSE <<>>)

\* every queued message is in exactly one place: a batch passed to the writer,
\* the batch in flight, or the queue
Conserved == Flat(handed) \o InFlight \o message_queue = Queued(adds)

\* a step in which thread t ends the try block of _flush_batch
WriteStep(t) == pc[t] = "f_write" /\ pc'[t] # "f_write"

\* C4: when the call of the writer raises, the operation (add_message,
\* force_flush, periodic_flush) returns normally with errors one higher,
\* messages_processed and batches_written unchanged and the queue as the flush
\* left it; no exception ever leaves an operation; the messages of a failed
\* batch are in no later batch and not in the queue; and an add_message after
\* a failure queues its message as before.
C4_WriterFailure ==
    /\ [][\A t \in Threads :
            (WriteStep(t) /\ Last(handed').raised # "") =>
                /\ stats'.errors = stats.errors + 1
                /\ stats'.messages_processed = stats.messages_processed
                /\ stats'.batches_written = stats.batches_written
                /\ message_queue' = message_queue
                /\ pc'[t] = ReturnTo(t)
                /\ lock' = "free"]_vars
    /\ [][(AddStep /\ stats.errors > 0
             /\ ~(enable_deduplication /\ _is_duplicate(recent_messages, message)))
            => message_queue' = Append(message_queue, message)]_vars
    /\ [](Conserved /\ \A t \in Threads : pc[t] # "raised")

\* a write has failed and a later add_message has queued its message
C4_Witness ==
    /\ stats.errors = 1
    /\ Last(handed).raised # ""
    /\ op["main"] = "none"
    /\ Len(message_queue) = 1
    /\ Last(adds).queued
    /\ Len(adds) = Len(Last(handed).batch) + 1

\* C5: at most one thread is inside _flush_batch, and it holds the lock; the
\* queue does not change between the copy and the clear of a flush; every
\* message add_message queued is in exactly one of: a batch passed to the
\* writer, the batch in flight, the queue.
C5_OneFlushAtATime ==
    /\ Cardinality({t \in Threads : pc[t] \in FlushLabels}) <= 1
    /\ \A t \in Threads : pc[t] \in FlushLabels \cup {"a_body", "p_body"} => lock = t
    /\ \A t \in Threads : pc[t] = "f_clear" => messages[t] = message_queue
    /\ Conserved

\* the flush thread is between the copy and the clear of a flush while the
\* reader waits for the lock with a message to add
C5_Witness ==
    /\ pc["timer"] = "f_clear"
    /\ pc["main"] = "a_lock"
    /\ lock = "timer"
    /\ message_queue # <<>>

----------------------------------------------------------------------------
(* Claims about the writer *)

\* a write step during which the MySQL server fails nothing
AcceptedWrite(t) ==
    /\ WriteStep(t)
    /\ db' = CallWriter(db, messages[t], "none").db
    /\ Last(handed').raised = CallWriter(db, messages[t], "none").raised

AircraftRows(aircraft, icao) == {i \in 1..Len(aircraft) : aircraft[i].icao24 = icao}

\* C6: a flush of k >= 1 messages on a store that accepts writes passes exactly
\* those k messages to the writer, which inserts one Message row per message,
\* in order; messages_processed grows by k, batches_written by 1, errors stays
\* and the queue is empty.
C6_FlushPersists ==
    [][\A t \in Threads :
         (AcceptedWrite(t) /\ Len(messages[t]) >= 1) =>
            LET k == Len(messages[t]) IN
            /\ Last(handed').batch = messages[t]
            /\ db'.messages = db.messages \o [i \in 1..k |-> MessageRow(messages[t][i])]
            /\ stats'.messages_processed = stats.messages_processed + k
            /\ stats'.batches_written = stats.batches_written + 1
            /\ stats'.errors = stats.errors
            /\ message_queue' = <<>>]_vars

\* C7: every Message row and every Position row references an Aircraft row,
\* and after a batch was persisted on a store that accepts writes there is
\* exactly one Aircraft row for every icao24 of the batch.
C7_AircraftFirst ==
    /\ [](ForeignKeysHold(db))
    /\ [][\A t \in Threads :
            AcceptedWrite(t) =>
               \A i \in 1..Len(messages[t]) :
                  Cardinality(AircraftRows(db'.aircraft, messages[t][i].icao24)) = 1]_vars

\* ---------------------------------------------------------------------
\* Claims about the reconnect backoff (checked under SpecClient).
\* waits is the sequence of sleeps of the current run of consecutive
\* failed connects; a successful connect empties it.

RECURSIVE Pow2(_)
Pow2(n) == IF n = 0 THEN 1 ELSE 2 * Pow2(n - 1)

\* C9 as stated: the wait after the N-th consecutive failed connect is
\* min(initial * 2^(N-1), ceiling), for every positive initial interval and
\* ceiling.
C9_Original ==
    \A n \in 1..Len(waits) :
        waits[n] = Min(reconnect_interval * Pow2(n - 1), max_reconnect_interval)

\* C9 (amended): the wait after the first consecutive failed connect is the
\* initial interval, also when it is above the ceiling; the wait after the
\* N-th, N >= 2, is min(initial * 2^(N-1), ceiling).
C9_Backoff ==
    \A n \in 1..Len(waits) :
        waits[n] = IF n = 1 THEN reconnect_interval
                   ELSE Min(reconnect_interval * Pow2(n - 1), max_reconnect_interval)

\* three consecutive failures, the third one capped by the ceiling
C9_Witness ==
    /\ Len(waits) = 3
    /\ reconnect_interval = 1
    /\ max_reconnect_interval = 3
    /\ waits = <<1, 2, 3>>

\* C10: a successful connect sets the backoff interval to the initial
\* interval, and the first failed connect after a successful connection
\* waits the initial interval, however many failures preceded the success.
C10_ResetOnSuccess ==
    /\ []((connects >= 1 /\ waits # <<>>) => waits[1] = reconnect_interval)
    /\ [][(cpc = "connect" /\ cpc' = "recv")
             => current_reconnect_interval' = reconnect_interval]_vars

\* a failed connect after a success that itself followed two failures which
\* had grown the interval
C10_Witness ==
    /\ connects >= 1
    /\ lastrun >= 2
    /\ reconnect_interval < max_reconnect_interval
    /\ Len(waits) = 1

\* ---------------------------------------------------------------------
\* Claims about the read loop (checked under SpecClient).

\* a step in which the reader leaves self.socket.recv(4096)
RecvStep == cpc = "recv" /\ cpc' = "loop"

\* a step in which the reader evaluates the loop condition and goes on
LoopStep == cpc = "loop" /\ cpc' # "loop"

\* C11: a recv that returns zero bytes or raises a socket error leaves the
\* reader disconnected with the socket closed; while running holds, the next
\* loop iteration of a disconnected reader is a connect attempt; and the reader
\* is at recv only while connected with an open socket.
C11_DropToDisconnected ==
    /\ [][(RecvStep /\ recv_result' \in {"eof", "error"})
             => (connected' = FALSE /\ socket' = None)]_vars
    /\ [][(LoopStep /\ running /\ ~connected) => cpc' = "connect"]_vars
    /\ [](cpc = "recv" => (connected /\ socket = "open"))

\* after a remote close on an established connection the reader is at the
\* next connect attempt
C11_Witness ==
    /\ recv_result = "eof"
    /\ connects >= 1
    /\ cpc = "connect"
    /\ running
    /\ ~connected /\ socket = None

\* C12: a read in which the callback raises on a line leaves the reader
\* connected with its socket, every complete line of the buffer has been
\* handed to the callback in order, the buffer keeps the unterminated rest,
\* and the loop goes on to the next recv.
C12_SinkError ==
    /\ [][(RecvStep /\ sink_failed' # sink_failed) =>
            /\ connected' /\ socket' = "open"
            /\ \E chunk \in Chunks :
                  /\ stream' = stream \o chunk
                  /\ delivered' = delivered \o ProcessLines(buffer \o chunk, <<>>).lines
                  /\ buffer' = ProcessLines(buffer \o chunk, <<>>).buffer]_vars
    /\ [][(LoopStep /\ running /\ connected) => cpc' = "recv"]_vars

\* one read completed two lines; the callback raised on the first and the
\* second was delivered after it
C12_Witness ==
    /\ reads = 2
    /\ stream = <<"a", "\n", "b", "\n">>
    /\ delivered = << <<"a">>, <<"b">> >>
    /\ sink_failed = << <<"a">> >>
    /\ connected
    /\ cpc = "recv"

\* the positions of the newlines of s
Newlines(s) == { i \in 1..Len(s) : s[i] = "\n" }

\* the newline-terminated segments of s, in order
RECURSIVE Terminated(_, _)
Terminated(s, from) ==
    IF \A i \in Newlines(s) : i < from THEN <<>>
    ELSE LET i == CHOOSE k \in Newlines(s) :
                     k >= from /\ \A j \in Newlines(s) : j >= from => k <= j
         IN  <<SubSeq(s, from, i - 1)>> \o Terminated(s, i + 1)

\* the trimmed non-empty newline-terminated segments of s
Segments(s) ==
    LET trimmed == [i \in 1..Len(Terminated(s, 1)) |-> Strip(Terminated(s, 1)[i])]
    IN  SelectSeq(trimmed, LAMBDA l : l # <<>>)

\* what follows the last newline of s
UnterminatedTail(s) ==
    IF Newlines(s) = {} THEN s
    ELSE SubSeq(s, (CHOOSE k \in Newlines(s) : \A j \in Newlines(s) : j <= k) + 1,
                Len(s))

\* the lines delivered on the current connection
DeliveredOnConnection == SubSeq(delivered, mark + 1, Len(delivered))

\* C13: the lines delivered on a connection are, in order, the trimmed
\* non-empty newline-terminated segments of the characters received on that
\* connection, however they were split into reads; and after each read the
\* buffer is the unterminated tail of those characters and holds no newline.
C13_Framing ==
    /\ (connects >= 1) => DeliveredOnConnection = Segments(stream)
    /\ (recv_result = "data") =>
          (buffer = UnterminatedTail(stream) /\ ~HasNewline(buffer))

\* C14: read_messages has returned only when running is false, and then the
\* socket is released and connected is false; no step returns from it while
\* running holds.
C14_ReturnsOnlyOnStop ==
    /\ [](cpc = "returned" => (~running /\ socket = None /\ ~connected))
    /\ [][(cpc # "returned" /\ cpc' = "returned") => ~running]_vars

\* read_messages returned after a failed connect, a callback exception and a
\* remote close or socket error
C14_Witness ==
    /\ cpc = "returned"
    /\ lastrun >= 1
    /\ sink_failed # <<>>
    /\ recv_result \in {"eof", "error"}
    /\ waits # <<>>

\* ---------------------------------------------------------------------
\* Claims about shutdown (checked under Spec).

\* read_messages has returned and shutdown() is running or has run
InShutdown == op["main"] = "force_flush" \/ pc["main"] \in {"s_disc", "s_stats", "done"}

\* force_flush has returned
ForcedFlushDone == pc["main"] \in {"s_disc", "s_stats", "done"}

\* a step that closes the socket
ClosingStep == socket # None /\ socket' = None

\* the main thread moves to position p
MainReaches(p) == pc["main"] # p /\ pc'["main"] = p

\* C15 as stated: no add once shutdown has begun; the connection is closed
\* after the forced flush; then the counters are reported; the queue is empty
\* from the forced flush on.
C15_Original ==
    /\ [][InShutdown => adds' = adds]_vars
    /\ [][ClosingStep => pc["main"] = "s_disc"]_vars
    /\ [][MainReaches("s_stats") => pc["main"] = "s_disc"]_vars
    /\ [][MainReaches("done") => pc["main"] = "s_stats"]_vars
    /\ [](ForcedFlushDone => message_queue = <<>>)

\* C15 (amended): no add once shutdown has begun; the socket is closed by the
\* reader as it returns, so the connection is already closed when the forced
\* flush starts; the forced flush runs before shutdown's disconnect, which runs
\* before the counters are reported; the queue is empty from the forced flush
\* on.
C15_Shutdown ==
    /\ [][InShutdown => adds' = adds]_vars
    /\ [][ClosingStep => (pc["main"] = "read" /\ pc'["main"] = "s_lock")]_vars
    /\ [](InShutdown => (socket = None /\ ~connected))
    /\ [][MainReaches("s_disc") => op["main"] = "force_flush"]_vars
    /\ [][MainReaches("s_stats") => pc["main"] = "s_disc"]_vars
    /\ [][MainReaches("done") => pc["main"] = "s_stats"]_vars
    /\ [](ForcedFlushDone => message_queue = <<>>)

\* shutdown has completed and its forced flush took a pending batch
C15_Witness ==
    /\ pc["main"] = "done"
    /\ \E i \in 1..Len(handed) : handed[i].by = "force_flush"

\* ---------------------------------------------------------------------
\* Claims about ordering (checked under Spec).

IsPrefix(s, t) == Len(s) <= Len(t) /\ SubSeq(t, 1, Len(s)) = s

\* C16: every batch passed to the writer is the next run of the accepted
\* messages in add order: the batches concatenated in flush order are a prefix
\* of the accepted messages, each write step passes the run that follows what
\* was passed before, and when nothing is pending the concatenation is the
\* whole sequence of accepted messages.
C16_Order ==
    /\ [](IsPrefix(Flat(handed), Queued(adds)))
    /\ [][\A t \in Threads : WriteStep(t) =>
             Last(handed').batch =
                 SubSeq(Queued(adds), Len(Flat(handed)) + 1,
                        Len(Flat(handed)) + Len(messages[t]))]_vars
    /\ []((message_queue = <<>> /\ InFlight = <<>>) => Flat(handed) = Queued(adds))

\* two batches were passed, the first with two messages, the second with a
\* message added after the first flush
C16_Witness ==
    /\ Len(handed) = 2
    /\ Len(handed[1].batch) = 2
    /\ Len(handed[2].batch) = 1
    /\ Len(adds) = 3
    /\ handed[1].batch[1] # handed[1].batch[2]

\* ---------------------------------------------------------------------
\* Claims about get_stats (checked under SpecStats).

\* a step in which get_stats returns its snapshot: the call of the statistics
\* thread or the call of shutdown
SnapshotStep ==
    \/ (spc = "stats" /\ spc' = "dbstats")
    \/ MainReaches("done")

\* no thread is inside the critical section of add_message, force_flush or
\* periodic_flush
NoMidUpdate ==
    \A t \in Threads : pc[t] \notin {"a_body", "p_body", "f_copy", "f_clear", "f_write"}

\* the counters and the queue depth agree with the calls made so far: every
\* received message is counted as discarded or was queued, every queued
\* message is in the queue or in a batch that has been accounted for
Untorn ==
    /\ stats.messages_received = Len(adds)
    /\ stats.messages_received = stats.messages_discarded + Len(Queued(adds))
    /\ Len(Queued(adds)) = Len(message_queue) + Len(Flat(handed))
    /\ Len(handed) = stats.batches_written + stats.errors

\* C17: get_stats returns only at an instant at which no add or flush is in
\* its critical section: the lock is free, no thread is between the increment
\* of messages_received and the discard or enqueue, nor between the copy or
\* clear of the queue and the update of the counters for that batch, and the
\* counters and queue depth it copies agree with one another.
C17_Snapshot ==
    [][SnapshotStep => (lock = "free" /\ NoMidUpdate /\ Untorn)]_vars

\* the statistics thread took its snapshot while a message was pending and
\* a batch had been flushed
C17_Witness ==
    /\ spc \in {"dbstats", "raised"}
    /\ message_queue # <<>>
    /\ handed # <<>>
    /\ pc["timer"] = "p_lock"

\* ---------------------------------------------------------------------
\* Claims about the writer's connections (checked under SpecWriter).

Has(s, x) == \E i \in 1..Len(s) : s[i] = x

\* C18: a unit of work that got a connection from the pool commits it when
\* its body succeeded, rolls it back when the body or the commit failed, and
\* in both cases closes it last, which gives it back to the pool; a unit of
\* work that got no connection calls nothing; between units of work no
\* connection is checked out, and the number checked out never exceeds the
\* pool size.
C18_ConnectionPerUnit ==
    /\ checked_out <= pool_size
    /\ (wpc \in {"new", "ready", "failed"}) => checked_out = 0
    /\ \A i \in 1..Len(wlog) :
          LET e == wlog[i] IN
          /\ (e.calls # <<>>) =>
                /\ e.calls[1] = "get_connection"
                /\ Last(e.calls) = "close"
                /\ \A j \in 1..Len(e.calls) : e.calls[j] = "close" => j = Len(e.calls)
          /\ (e.calls # <<>> /\ e.raised = "") =>
                e.calls = <<"get_connection", "commit", "close">>
          /\ (e.calls # <<>> /\ e.raised # "") => Has(e.calls, "rollback")

\* startup verification has used a connection and released it, and a later
\* call on the writer has ended
C18_Witness ==
    /\ Len(wlog) >= 2
    /\ wlog[1].unit = "_verify_connection"
    /\ wlog[1].calls = <<"get_connection", "commit", "close">>
    /\ wpc = "ready"
    /\ checked_out = 0


----------------------------------------------------------------------------
(* Claims about the decoder and the aircraft upsert *)

\* a callsign that is neither absent nor empty
KnownCallsign(c) == c \notin {None, ""}

\* the row of the aircraft table for an icao24 that has one
RowOf(table, icao) ==
    table[CHOOSE j \in 1..Len(table) : table[j].icao24 = icao]

\* C19: upserting an aircraft row that holds a non-empty callsign never
\* leaves it with an empty or absent callsign, and changes the callsign only
\* to a non-empty callsign of the incoming batch, for every batch the decoder
\* produces.
C19_CallsignKept ==
    dpc = "stored" =>
        \A i \in 1..Len(table_before) :
            LET old == table_before[i]
                new == RowOf(aircraft_table, old.icao24)
            IN KnownCallsign(old.callsign) =>
                  /\ HasAircraft(aircraft_table, old.icao24)
                  /\ KnownCallsign(new.callsign)
                  /\ (new.callsign # old.callsign =>
                         \E k \in 1..Len(decoded) :
                             /\ decoded[k].icao24 = old.icao24
                             /\ decoded[k].callsign = new.callsign)

\* the comma-separated fields of a line, counted by its commas
FieldCount(l) == Cardinality({ i \in 1..Len(l) : l[i] = Comma }) + 1

\* the characters of a line before its first comma
FirstField(l) ==
    LET commas == { i \in 1..Len(l) : l[i] = Comma }
        stop == IF commas = {} THEN Len(l) + 1
                ELSE CHOOSE i \in commas : \A j \in commas : i <= j
    IN [i \in 1..(stop - 1) |-> l[i]]

\* C20: parse returns no record for every line that has fewer than 10
\* comma-separated fields and for every line whose first field is not one of
\* SEL, ID, AIR, STA, CLK, MSG.
C20_Rejects ==
    (/\ dpc # "line"
     /\ \/ FieldCount(input_line) < 10
        \/ Text(FirstField(input_line)) \notin MESSAGE_TYPES)
    => parsed = <<>>

C20_Witness ==
    /\ dpc = "parsed"
    /\ FieldCount(input_line) >= 22
    /\ Text(FirstField(input_line)) = "XXX"
    /\ Text(split(input_line)[5]) = "A1"
    /\ parsed = <<>>

\* a date field and a time field that strptime takes together
WellFormed(date_str, time_str) ==
    /\ \E d \in Dates : date_str = <<d>>
    /\ \E t \in Times : time_str = <<t>>

\* the line has the fields, the message type and the icao24 of a record
Decodable(l) ==
    /\ FieldCount(l) >= 10
    /\ Text(FirstField(l)) \in MESSAGE_TYPES
    /\ strip(split(l)[5]) # <<>>

\* C21: every line with at least 10 fields, a known message type and an
\* icao24 that is not blank yields a record, whose timestamp is the parsed
\* date and time when they are well-formed and the current UTC instant
\* otherwise; a line with at least 10 fields whose icao24 field is empty or
\* blank yields no record.
C21_TimestampNeverRejects ==
    dpc # "line" =>
        /\ Decodable(input_line) =>
              /\ parsed # <<>>
              /\ LET fields == split(input_line) IN
                 parsed[1].timestamp =
                    IF WellFormed(fields[7], fields[8])
                    THEN fields[8][1] ELSE "utcnow"
        /\ (FieldCount(input_line) >= 10 /\ strip(split(input_line)[5]) = <<>>)
              => parsed = <<>>

\* a line with a known type, an icao24 and a malformed time was decoded
C21_Witness ==
    /\ dpc = "parsed"
    /\ Decodable(input_line)
    /\ split(input_line)[8] = <<"25:61">>
    /\ parsed # <<>>
    /\ parsed[1].timestamp = "utcnow"

----------------------------------------------------------------------------
(* Claims about the recency deque *)

\* the keys of the accepted messages, in the order of their acceptance
AcceptedKeys(log) ==
    LET acc == SelectSeq(log, LAMBDA e : e.queued)
    IN [i \in 1..Len(acc) |-> _message_key(acc[i].msg)]

\* the last n elements of s, all of s when it has fewer
LastN(s, n) == IF Len(s) <= n THEN s ELSE SubSeq(s, Len(s) - n + 1, Len(s))

----------------------------------------------------------------------------
(* Claims about the seen-timestamps of the aircraft rows *)

\* the positions of the messages of an aircraft in a batch
Of(batch, icao) == { k \in 1..Len(batch) : batch[k].icao24 = icao }

\* the first and the last message of an aircraft in a batch that has one
FirstOf(batch, icao) ==
    batch[CHOOSE k \in Of(batch, icao) : \A j \in Of(batch, icao) : k <= j]

LastOf(batch, icao) ==
    batch[CHOOSE k \in Of(batch, icao) : \A j \in Of(batch, icao) : k >= j]

\* C23: after the upsert of a batch the aircraft row of every icao24 of the
\* batch holds as last_seen the timestamp of the last message of that icao24
\* in the batch.
C23_LastSeen ==
    dpc = "stored" =>
        \A k \in 1..Len(decoded) :
            LET icao == decoded[k].icao24 IN
            /\ HasAircraft(aircraft_table, icao)
            /\ RowOf(aircraft_table, icao).last_seen = LastOf(decoded, icao).timestamp

\* C29: the upsert of a batch gives a new aircraft row the timestamp of the
\* first message of its icao24 in the batch as first_seen, and leaves the
\* first_seen of every row that existed before as it was.
C29_FirstSeen ==
    dpc = "stored" =>
        /\ \A i \in 1..Len(table_before) :
              LET old == table_before[i] IN
              /\ HasAircraft(aircraft_table, old.icao24)
              /\ RowOf(aircraft_table, old.icao24).first_seen = old.first_seen
        /\ \A i \in 1..Len(aircraft_table) :
              LET new == aircraft_table[i] IN
              ~HasAircraft(table_before, new.icao24) =>
                  /\ Of(decoded, new.icao24) # {}
                  /\ new.first_seen = FirstOf(decoded, new.icao24).timestamp

\* a batch with a message of a stored aircraft and two messages of a new one
\* was upserted: the stored row kept its first_seen, the new row has the
\* timestamp of its first message
C29_Witness ==
    /\ dpc = "stored"
    /\ HasAircraft(table_before, "A1") /\ ~HasAircraft(table_before, "B2")
    /\ Len(decoded) = 2
    /\ decoded[1].icao24 = "B2" /\ decoded[1].timestamp = "t2"
    /\ decoded[2].icao24 = "A1" /\ decoded[2].timestamp = "t1"
    /\ RowOf(aircraft_table, "A1").first_seen = "t0"
    /\ RowOf(aircraft_table, "A1").last_seen = "t1"
    /\ RowOf(aircraft_table, "B2").first_seen = "t2"

----------------------------------------------------------------------------
(* Claims about the counters and the flush paths *)

\* the batches passed to the writer by calls that returned
Written(log) == SelectSeq(log, LAMBDA h : h.raised = "")

Counters ==
    {"messages_received", "messages_processed", "messages_discarded",
     "batches_written", "errors"}

\* C24: whenever the processor lock is free, messages_received is
\* messages_discarded plus the queue depth plus the number of messages passed
\* to the writer; messages_processed never exceeds the number of messages
\* passed to the writer by calls that succeeded; and no counter ever
\* decreases.
C24_CounterConservation ==
    /\ [](/\ lock = "free" =>
               stats.messages_received =
                  stats.messages_discarded + Len(message_queue) + Len(Flat(handed))
          /\ stats.messages_processed <= Len(Flat(Written(handed))))
    /\ [][\A c \in Counters : stats'[c] >= stats[c]]_vars

\* three messages were received: two were passed to the writer in one batch,
\* which failed, and the third is pending
C24_Witness ==
    /\ lock = "free"
    /\ stats.messages_received = 3
    /\ stats.messages_discarded = 0
    /\ Len(message_queue) = 1
    /\ Len(handed) = 1 /\ Len(handed[1].batch) = 2
    /\ stats.errors = 1

\* a thread that holds the lock on an empty queue leaves the point where its
\* operation decides about the flush (_flush_batch in force_flush, the two
\* tests in periodic_flush)
EmptyFlushStep(t) ==
    /\ pc[t] \in {"f_copy", "p_body"}
    /\ message_queue = <<>>
    /\ pc'[t] # pc[t]

\* C25: the writer is never called with an empty batch, and a flush path that
\* finds the pending queue empty returns with the lock released, leaving the
\* counters, the last-flush time, the queue and the store as they were.
C25_NoEmptyBatch ==
    /\ [](\A i \in 1..Len(handed) : handed[i].batch # <<>>)
    /\ [][\A t \in Threads :
            EmptyFlushStep(t) =>
               /\ stats' = stats /\ last_flush' = last_flush
               /\ message_queue' = <<>> /\ handed' = handed /\ db' = db
               /\ pc'[t] = ReturnTo(t) /\ lock' = "free"]_vars

\* the forced flush and a periodic tick with the timeout elapsed both found
\* the queue empty: nothing was passed to the writer and nothing was counted
C25_Witness ==
    /\ pc["main"] = "s_disc"
    /\ pc["timer"] = "p_loop" /\ lock = "free"
    /\ now - last_flush >= batch_timeout
    /\ adds = <<>> /\ handed = <<>>
    /\ stats.batches_written = 0 /\ stats.errors = 0
    /\ last_flush = 0

\* add_message queues its message
AcceptStep ==
    /\ pc["main"] = "a_body"
    /\ Len(adds') = Len(adds) + 1
    /\ Last(adds').queued

\* a call of the writer returns or raises
HandStep == Len(handed') = Len(handed) + 1

\* the last flush failed, and batch_timeout had elapsed when it did
FailedElapsed ==
    /\ handed # <<>>
    /\ Last(handed).raised # ""
    /\ Last(handed).elapsed

\* C26: last_flush changes only with a write that succeeded, to the time of
\* that write; a write that failed leaves it as it was; and once a flush has
\* failed with batch_timeout elapsed, every add that queues its message goes
\* on to flush at once and passes the writer that one message, as long as no
\* write has succeeded.
C26_LastFlush ==
    /\ [][last_flush' # last_flush =>
             (HandStep /\ Last(handed').raised = "" /\ last_flush' = now)]_vars
    /\ [][(HandStep /\ Last(handed').raised # "") => last_flush' = last_flush]_vars
    /\ [][(AcceptStep /\ FailedElapsed) =>
             (pc'["main"] = "f_copy" /\ message_queue' = <<message>>)]_vars
    /\ [][(HandStep /\ FailedElapsed /\ Last(handed').by = "add_message") =>
             Last(handed').batch = <<message>>]_vars

\* a flush failed after the timeout had elapsed, last_flush stayed, and the
\* next two adds each passed a batch of their one message to the writer
C26_Witness ==
    /\ Len(handed) = 3
    /\ handed[1].raised # "" /\ handed[1].elapsed
    /\ handed[2].by = "add_message" /\ Len(handed[2].batch) = 1
    /\ handed[3].by = "add_message" /\ Len(handed[3].batch) = 1
    /\ batch_size = 2
    /\ last_flush = 0 /\ now = 1

----------------------------------------------------------------------------
(* Claims about lines and connections *)

\* l is a run of consecutive characters of s
IsInfix(l, s) ==
    \E from \in 1..(Len(s) + 1) :
        /\ from + Len(l) - 1 <= Len(s)
        /\ \A i \in 1..Len(l) : s[from + i - 1] = l[i]

\* C27: every line delivered to the callback on a connection is a run of
\* consecutive characters received on that connection: what an earlier
\* connection left unterminated in the buffer is not part of it.
C27_OneConnectionPerLine ==
    \A i \in 1..Len(DeliveredOnConnection) :
        IsInfix(DeliveredOnConnection[i], stream)

----------------------------------------------------------------------------
(* Claims about the lock *)

\* the positions inside a "with self.lock" block
InsideLabels == {"a_body", "p_body"} \cup FlushLabels

\* the positions where a thread of the processor waits for the lock
MainLockLabels == {"a_lock", "s_lock", "s_stats"}

C28_Waiting ==
    /\ pc["main"] = "a_lock"
    /\ pc["timer"] = "f_write"
    /\ lock = "timer"

=============================================================================
